---- MODULE Spec2Model ----
(***************************************************************************)
(* Model of set_groq_model.py: one run of the script (credential check,    *)
(* fetch of the model list, selection against SUPPORTED_MODELS, update of  *)
(* GROQ_CHAT_MODEL, exit status), plus a harness that calls                *)
(* ensure_env_model repeatedly.                                            *)
(*                                                                         *)
(* Python values are records [t, s, n]: t is the type ("str", "num",       *)
(* "null"), s the text of a str, n the value of a number.                  *)
(***************************************************************************)
EXTENDS Integers, Sequences, FiniteSets, TLC

VARIABLES pc, env_key, env_model, env_model0, response, available, chosen,
          model_name, exc, exit_status, log,
          httpGets, fetcherCalls, selectorCalls, applierCalls,
          envReads, envWrites

vars == <<pc, env_key, env_model, env_model0, response, available, chosen,
          model_name, exc, exit_status, log,
          httpGets, fetcherCalls, selectorCalls, applierCalls,
          envReads, envWrites>>

\* ---------------------------------------------------------------- bounds
MaxEntries == 2
MaxCalls == 4

\* --------------------------------------------------------- Python values
None == [t |-> "null", s |-> "", n |-> 0]
PyStr(x) == [t |-> "str", s |-> x, n |-> 0]
PyNum(x) == [t |-> "num", s |-> "", n |-> x]

\* truth value of a Python object, as `not x` / `if x` evaluate it
Truthy(v) == \/ v.t = "str" /\ v.s # ""
             \/ v.t = "num" /\ v.n # 0

\* `x in lst` for a Python list
PyIn(x, lst) == \E i \in 1..Len(lst) : lst[i] = x

BoundedSeq(S, n) == UNION {[1..k -> S] : k \in 0..n}

\* ------------------------------------------------------------- constants
SUPPORTED_MODELS ==
  <<"llama-3.3-70b-versatile", "llama-3.1-8b-instant", "qwen/qwen3-32b">>

OtherModel == "mixtral-8x7b-32768"

\* --------------------------------------------------- the remote payload
\* one element of the payload's "data" array
ObjEntry(hasId, id) == [t |-> "obj", hasId |-> hasId, id |-> id]
StrEntry == [t |-> "str", hasId |-> FALSE, id |-> None]
NumEntry == [t |-> "num", hasId |-> FALSE, id |-> None]

IdValues == {PyStr(SUPPORTED_MODELS[i]) : i \in 1..Len(SUPPORTED_MODELS)}
              \cup {PyStr(OtherModel), PyStr(""), None, PyNum(0), PyNum(42)}

Entries == {StrEntry, NumEntry, ObjEntry(FALSE, None)}
             \cup {ObjEntry(TRUE, v) : v \in IdValues}

Resp(kind, fp, shape, entries) ==
  [kind |-> kind, fp |-> fp, shape |-> shape, entries |-> entries]

NoResponse == Resp("none", FALSE, "none", <<>>)

\* what urlopen / json.load can hand back to fetch_available_models
Responses ==
  {Resp("url_error", FALSE, "none", <<>>)}
    \cup {Resp("http_error", fp, "none", <<>>) : fp \in BOOLEAN}
    \cup {Resp("ok", TRUE, sh, <<>>) :
            sh \in {"malformed", "not_object", "data_not_iterable", "no_data"}}
    \cup {Resp("ok", TRUE, "data_string", <<StrEntry>>)}
    \cup {Resp("ok", TRUE, "data_list", es) : es \in BoundedSeq(Entries, MaxEntries)}

NoExc == [type |-> "", what |-> "", supported |-> <<>>, available |-> <<>>]
Exc(type, what) ==
  [type |-> type, what |-> what, supported |-> <<>>, available |-> <<>>]

\* ------------------------------------------------ fetch_available_models
\* model.get("id")
DictGetId(e) == IF e.hasId THEN e.id ELSE None

\* the filter of the list comprehension
KeepEntry(e) == e.t = "obj" /\ Truthy(DictGetId(e))

\* models = [model.get("id") for model in ... if ...]
ParseModels(entries) ==
  LET kept == SelectSeq(entries, KeepEntry)
  IN  [i \in 1..Len(kept) |-> DictGetId(kept[i])]

\* data.get("data", [])
DataItems(resp) == IF resp.shape = "no_data" THEN <<>> ELSE resp.entries

\* variant: a network error is swallowed and an empty list returned
FetchResultSwallow(resp) ==
  CASE resp.kind = "http_error" ->
         [raised |-> TRUE, exc |-> Exc("HTTPError", "HttpError"),
          models |-> <<>>, log |-> <<"http_error">>]
    [] resp.kind = "url_error" ->
         [raised |-> FALSE, exc |-> NoExc,
          models |-> <<>>, log |-> <<"url_error">>]
    [] resp.kind = "ok" /\ resp.shape \in {"malformed", "not_object", "data_not_iterable"} ->
         [raised |-> TRUE, exc |-> Exc("ValueError", "ParseError"),
          models |-> <<>>, log |-> <<>>]
    [] OTHER ->
         [raised |-> FALSE, exc |-> NoExc,
          models |-> ParseModels(DataItems(resp)), log |-> <<"models">>]

FetchResult(resp) ==
  CASE resp.kind = "http_error" ->
         [raised |-> TRUE, exc |-> Exc("HTTPError", "HttpError"),
          models |-> <<>>, log |-> <<"http_error">>]
    [] resp.kind = "url_error" ->
         [raised |-> TRUE, exc |-> Exc("URLError", "NetworkError"),
          models |-> <<>>, log |-> <<"url_error">>]
    [] resp.kind = "ok" /\ resp.shape = "malformed" ->
         [raised |-> TRUE, exc |-> Exc("JSONDecodeError", "ParseError"),
          models |-> <<>>, log |-> <<>>]
    [] resp.kind = "ok" /\ resp.shape = "not_object" ->
         [raised |-> TRUE, exc |-> Exc("AttributeError", "ParseError"),
          models |-> <<>>, log |-> <<>>]
    [] resp.kind = "ok" /\ resp.shape = "data_not_iterable" ->
         [raised |-> TRUE, exc |-> Exc("TypeError", "ParseError"),
          models |-> <<>>, log |-> <<>>]
    [] OTHER ->
         [raised |-> FALSE, exc |-> NoExc,
          models |-> ParseModels(DataItems(resp)), log |-> <<"models">>]

\* ----------------------------------------------- select_compatible_model
RECURSIVE SelectFrom(_, _)
SelectFrom(i, avail) ==
  IF i > Len(SUPPORTED_MODELS) THEN None
  ELSE IF PyIn(PyStr(SUPPORTED_MODELS[i]), avail)
       THEN PyStr(SUPPORTED_MODELS[i])
       ELSE SelectFrom(i + 1, avail)

\* variant: scans the available list and returns its first supported entry
RECURSIVE SelectByAvailable(_, _)
SelectByAvailable(j, avail) ==
  IF j > Len(avail) THEN None
  ELSE IF \E i \in 1..Len(SUPPORTED_MODELS) : avail[j] = PyStr(SUPPORTED_MODELS[i])
       THEN avail[j]
       ELSE SelectByAvailable(j + 1, avail)

select_by_available_order(avail) == SelectByAvailable(1, avail)

\* variant: returns the preferred model whenever anything is available
select_first_supported(avail) ==
  IF avail = <<>> THEN None ELSE PyStr(SUPPORTED_MODELS[1])

select_compatible_model(avail) == SelectFrom(1, avail)

\* ------------------------------------------------------ ensure_env_model
\* variants of the comparison: never equal, always equal
AlreadySetNever(current, m) == FALSE
AlreadySetAlways(current, m) == TRUE

\* current == model_name
AlreadySet(current, m) == current = m

ensure_env_model(m) ==
  /\ applierCalls' = applierCalls + 1
  /\ model_name' = m
  /\ envReads' = envReads + 1
  /\ IF AlreadySet(env_model, m)
     THEN /\ env_model' = env_model
          /\ envWrites' = envWrites
          /\ log' = Append(log, "already")
     ELSE /\ env_model' = m
          /\ envWrites' = envWrites + 1
          /\ log' = Append(log, "updated")

\* ------------------------------------------------------------------ main
\* variant: only the empty string counts as a missing credential
CredentialEmptyOnly(api_key) == api_key = PyStr("")

\* not api_key
CredentialMissing(api_key) == ~Truthy(api_key)

\* variant: the miss is never detected
NoModelChosenNever(c) == FALSE

\* not chosen
NoModelChosen(c) == ~Truthy(c)

\* variant: the message names the preference list only
NoCompatibleErrorShort(avail) ==
  [type |-> "RuntimeError", what |-> "NoCompatibleModel",
   supported |-> SUPPORTED_MODELS, available |-> <<>>]

\* the RuntimeError raised when nothing matches
NoCompatibleError(avail) ==
  [type |-> "RuntimeError", what |-> "NoCompatibleModel",
   supported |-> SUPPORTED_MODELS, available |-> avail]

\* variant: the handler logs but exits normally
ExitCodeZero(raised) == 0

\* SystemExit(1) in the handler, 0 when main() returns
ExitCode(raised) == IF raised THEN 1 ELSE 0

EnvKeyValues == {None, PyStr(""), PyStr("gsk_key")}
EnvModelValues == {None, PyStr(OtherModel)}
                    \cup {PyStr(SUPPORTED_MODELS[i]) : i \in 1..Len(SUPPORTED_MODELS)}

Init ==
  /\ pc = "main"
  /\ env_key \in EnvKeyValues
  /\ env_model \in EnvModelValues
  /\ env_model0 = env_model
  /\ response = NoResponse
  /\ available = <<>>
  /\ chosen = None
  /\ model_name = None
  /\ exc = NoExc
  /\ exit_status = -1
  /\ log = <<>>
  /\ httpGets = 0 /\ fetcherCalls = 0 /\ selectorCalls = 0
  /\ applierCalls = 0 /\ envReads = 0 /\ envWrites = 0

main_check_key ==
  /\ pc = "main"
  /\ IF CredentialMissing(env_key)
     THEN /\ pc' = "raised"
          /\ exc' = Exc("RuntimeError", "MissingCredential")
          /\ log' = log
     ELSE /\ pc' = "fetch"
          /\ exc' = exc
          /\ log' = Append(log, "fetching")
  /\ UNCHANGED <<env_key, env_model, env_model0, response, available, chosen,
                 model_name, exit_status, httpGets, fetcherCalls,
                 selectorCalls, applierCalls, envReads, envWrites>>

main_fetch ==
  /\ pc = "fetch"
  /\ \E resp \in Responses :
       LET r == FetchResult(resp) IN
         /\ response' = resp
         /\ fetcherCalls' = fetcherCalls + 1
         /\ httpGets' = httpGets + 1
         /\ log' = log \o r.log
         /\ IF r.raised
            THEN /\ pc' = "raised"
                 /\ exc' = r.exc
                 /\ available' = available
            ELSE /\ pc' = "select"
                 /\ exc' = exc
                 /\ available' = r.models
  /\ UNCHANGED <<env_key, env_model, env_model0, chosen, model_name,
                 exit_status, selectorCalls, applierCalls, envReads, envWrites>>

main_select ==
  /\ pc = "select"
  /\ LET c == select_compatible_model(available) IN
       /\ chosen' = c
       /\ selectorCalls' = selectorCalls + 1
       /\ IF NoModelChosen(c)
          THEN /\ pc' = "raised"
               /\ exc' = NoCompatibleError(available)
               /\ log' = IF c = None THEN log ELSE Append(log, "found")
          ELSE /\ pc' = "apply"
               /\ exc' = exc
               /\ log' = Append(log, "found")
  /\ UNCHANGED <<env_key, env_model, env_model0, response, available,
                 model_name, exit_status, httpGets, fetcherCalls,
                 applierCalls, envReads, envWrites>>

main_apply ==
  /\ pc = "apply"
  /\ ensure_env_model(chosen)
  /\ pc' = "returned"
  /\ UNCHANGED <<env_key, env_model0, response, available, chosen, exc,
                 exit_status, httpGets, fetcherCalls, selectorCalls>>

entry_exit_ok ==
  /\ pc = "returned"
  /\ pc' = "exited"
  /\ exit_status' = ExitCode(FALSE)
  /\ log' = Append(log, "success")
  /\ UNCHANGED <<env_key, env_model, env_model0, response, available, chosen,
                 model_name, exc, httpGets, fetcherCalls, selectorCalls,
                 applierCalls, envReads, envWrites>>

entry_exit_fail ==
  /\ pc = "raised"
  /\ pc' = "exited"
  /\ exit_status' = ExitCode(TRUE)
  /\ log' = Append(log, "failure")
  /\ UNCHANGED <<env_key, env_model, env_model0, response, available, chosen,
                 model_name, exc, httpGets, fetcherCalls, selectorCalls,
                 applierCalls, envReads, envWrites>>

Next ==
  \/ main_check_key
  \/ main_fetch
  \/ main_select
  \/ main_apply
  \/ entry_exit_ok
  \/ entry_exit_fail

Spec == Init /\ [][Next]_vars

FairSpec == Spec /\ WF_vars(Next)

\* ------------------------------------------- harness: repeated Applier
Identifiers == {PyStr(SUPPORTED_MODELS[i]) : i \in 1..Len(SUPPORTED_MODELS)}
                 \cup {PyStr(OtherModel)}

InitApplier ==
  /\ pc = "harness"
  /\ env_key = PyStr("gsk_key")
  /\ env_model \in EnvModelValues
  /\ env_model0 = env_model
  /\ response = NoResponse
  /\ available = <<>>
  /\ chosen = None
  /\ model_name = None
  /\ exc = NoExc
  /\ exit_status = -1
  /\ log = <<>>
  /\ httpGets = 0 /\ fetcherCalls = 0 /\ selectorCalls = 0
  /\ applierCalls = 0 /\ envReads = 0 /\ envWrites = 0

harness_call ==
  /\ pc = "harness"
  /\ applierCalls < MaxCalls
  /\ \E m \in Identifiers : ensure_env_model(m)
  /\ UNCHANGED <<pc, env_key, env_model0, response, available, chosen, exc,
                 exit_status, httpGets, fetcherCalls, selectorCalls>>

NextApplier == harness_call

SpecApplier == InitApplier /\ [][NextApplier]_vars

\* =============================================================== claims
Supported(i) == PyStr(SUPPORTED_MODELS[i])

\* indices of the preference list whose entry occurs in avail
Hits(avail) ==
  {i \in 1..Len(SUPPORTED_MODELS) : \E j \in 1..Len(avail) : avail[j] = Supported(i)}

IsBest(v, avail) ==
  IF Hits(avail) = {} THEN v = None
  ELSE \E i \in Hits(avail) : v = Supported(i) /\ \A k \in Hits(avail) : i <= k

FetchSucceeded ==
  fetcherCalls = 1 /\ response.kind = "ok"
    /\ response.shape \in {"data_list", "data_string", "no_data"}

\* C1: once the Selector has run, its result is the preference-list entry of
\* lowest preference index among those occurring in the available sequence,
\* and None when no preference-list entry occurs in it.
C1_SelectorLowestPreferenceIndex ==
  selectorCalls = 1 => IsBest(chosen, available)

\* available [C, B] gives B
C1_Witness ==
  /\ selectorCalls = 1
  /\ available = <<Supported(3), Supported(2)>>
  /\ chosen = Supported(2)

\* C2: the selected model, when present, is in SUPPORTED_MODELS and in the
\* fetched sequence, and so is any value written to GROQ_CHAT_MODEL.
C2_SelectedInBoth ==
  /\ chosen # None =>
       /\ \E i \in 1..Len(SUPPORTED_MODELS) : chosen = Supported(i)
       /\ PyIn(chosen, available)
       /\ FetchSucceeded
  /\ envWrites > 0 =>
       /\ \E i \in 1..Len(SUPPORTED_MODELS) : env_model = Supported(i)
       /\ PyIn(env_model, available)

C2_Witness ==
  /\ envWrites = 1
  /\ Len(available) = 2
  /\ env_model = available[2]
  /\ env_model0 = PyStr(OtherModel)

\* C3: every call ensure_env_model(m) leaves the setting equal to m, and a
\* call that repeats the identifier of the call before it writes nothing,
\* logs the "already set" branch and leaves the setting equal to m.
C3_ApplierIdempotent ==
  [][ applierCalls' = applierCalls + 1 =>
        /\ env_model' = model_name'
        /\ (applierCalls > 0 /\ model_name' = model_name) =>
             /\ envWrites' = envWrites
             /\ env_model' = env_model
             /\ log' = Append(log, "already") ]_vars

\* unset before, written by the first call, untouched by the second
C3_Witness ==
  /\ pc = "harness"
  /\ env_model0 = None
  /\ applierCalls = 2
  /\ log = <<"updated", "already">>
  /\ envWrites = 1
  /\ env_model = model_name

\* C4: with GROQ_API_KEY unset the run raises MissingCredential before any
\* network call: no fetch, no selection, no update, and exit status 1.
C4_MissingCredential ==
  env_key = None =>
    /\ httpGets = 0 /\ fetcherCalls = 0 /\ selectorCalls = 0 /\ applierCalls = 0
    /\ pc \in {"main", "raised", "exited"}
    /\ pc \in {"raised", "exited"} => exc.what = "MissingCredential"
    /\ pc = "exited" => exit_status = 1

C4_Witness ==
  env_key = None /\ pc = "exited" /\ exit_status = 1

\* C5: when the fetch succeeded and the Selector returned None, the run
\* raises NoCompatibleModel naming the whole preference list and the whole
\* fetched sequence, the Applier is not called, and the exit status is 1.
C5_NoCompatibleModel ==
  (selectorCalls = 1 /\ chosen = None) =>
    /\ FetchSucceeded
    /\ pc \in {"raised", "exited"}
    /\ exc.what = "NoCompatibleModel"
    /\ exc.supported = SUPPORTED_MODELS
    /\ exc.available = available
    /\ applierCalls = 0
    /\ pc = "exited" => exit_status = 1

C5_Witness ==
  /\ pc = "exited" /\ exit_status = 1
  /\ selectorCalls = 1 /\ chosen = None
  /\ available = <<PyStr(OtherModel), PyStr(OtherModel)>>
  /\ exc.available = available

\* the run's inputs make it a success: credential, well-formed payload, and
\* a preference-list entry among the payload's identifiers
SuccessfulRun ==
  /\ Truthy(env_key)
  /\ response.kind = "ok" /\ response.shape = "data_list"
  /\ \E j \in 1..Len(response.entries) : \E i \in 1..Len(SUPPORTED_MODELS) :
       response.entries[j] = ObjEntry(TRUE, Supported(i))

ExitStatusMatches ==
  /\ exit_status \in {0, 1}
  /\ exit_status = 0 <=> SuccessfulRun
  /\ exit_status = 0 => applierCalls = 1 /\ envWrites \in {0, 1}
  /\ ~Truthy(env_key) => exit_status = 1
  /\ response.kind \in {"url_error", "http_error"} => exit_status = 1
  /\ response.shape \in {"malformed", "not_object", "data_not_iterable"} =>
       exit_status = 1
  /\ (selectorCalls = 1 /\ chosen = None) => exit_status = 1

\* C6: every run ends, and ends with status 0 exactly when the credential
\* is present, the fetch succeeds and a model is selected, and with status 1
\* for every failure kind.
C6_ExitStatus ==
  /\ [](pc = "exited" => ExitStatusMatches)
  /\ <>(pc = "exited")

\* valid JSON of the wrong shape ends with status 1
C6_Witness ==
  /\ pc = "exited" /\ exit_status = 1
  /\ response.kind = "ok" /\ response.shape = "not_object"

\* C7 as stated: the fetched sequence is a sequence of strings, the ids of
\* the mapping entries that carry a non-empty id, in payload order.
RECURSIVE IdsInOrder(_)
IdsInOrder(es) ==
  IF es = <<>> THEN <<>>
  ELSE LET e == Head(es) IN
         IF e.t = "obj" /\ e.hasId /\ e.id \notin {None, PyStr(""), PyNum(0)}
         THEN <<e.id>> \o IdsInOrder(Tail(es))
         ELSE IdsInOrder(Tail(es))

C7_FetchedIdentifierStrings ==
  (fetcherCalls = 1 /\ response.kind = "ok" /\ response.shape = "data_list") =>
    /\ pc # "raised"
    /\ available = IdsInOrder(response.entries)
    /\ \A i \in 1..Len(available) : available[i].t = "str"

\* C8: at most one GET per run; after a network or HTTP error nothing else
\* runs: no selection, no update, and the exit status is not 0.
C8_NoRetry ==
  /\ httpGets <= 1
  /\ httpGets = fetcherCalls
  /\ response.kind \in {"url_error", "http_error"} =>
       /\ pc \in {"raised", "exited"}
       /\ exc.what = (IF response.kind = "url_error" THEN "NetworkError" ELSE "HttpError")
       /\ selectorCalls = 0 /\ applierCalls = 0
       /\ pc = "exited" => exit_status = 1

C8_Witness ==
  /\ response.kind = "url_error"
  /\ pc = "exited" /\ exit_status = 1 /\ httpGets = 1

\* C9: GROQ_CHAT_MODEL is read at most once and written at most once, only
\* by the Applier, after a successful fetch and a successful selection; a
\* run that ends with status 1 leaves it at its startup value.
C9_SettingTouchedOnlyByApplier ==
  /\ envReads <= 1 /\ envWrites <= 1
  /\ envReads = applierCalls /\ envWrites <= envReads
  /\ selectorCalls > 0 => FetchSucceeded
  /\ (envReads > 0 \/ envWrites > 0 \/ env_model # env_model0) =>
       /\ applierCalls = 1
       /\ FetchSucceeded
       /\ selectorCalls = 1 /\ Truthy(chosen)
       /\ pc \in {"returned", "exited"}
  /\ exit_status = 1 => env_model = env_model0 /\ envWrites = 0 /\ envReads = 0

C9_Witness ==
  /\ pc = "exited" /\ exit_status = 0
  /\ envReads = 1 /\ envWrites = 1
  /\ env_model0 = None

\* C10: a run that ends with status 0 leaves GROQ_CHAT_MODEL equal to the
\* highest-priority preference-list entry present in the fetched sequence,
\* and has written it exactly when the startup value differed from it.
C10_FinalSetting ==
  exit_status = 0 =>
    /\ Hits(available) # {}
    /\ IsBest(env_model, available)
    /\ envWrites = (IF env_model0 = env_model THEN 0 ELSE 1)

C10_Witness ==
  /\ exit_status = 0
  /\ env_model0 = Supported(1)
  /\ env_model = Supported(2)
  /\ envWrites = 1

====
